---------------------------- MODULE Spec2Model ----------------------------
(***************************************************************************)
(* A model of bgc_md2/models/CARDAMOM/CARDAMOMlib.py: the Delta14C        *)
(* diagnostic, the 14C companion of a discrete / continuous model run and  *)
(* the top-level load_Delta_14C_dataset with its failure handling.         *)
(*                                                                         *)
(* Numbers.  Array entries are binary floating-point values with the IEEE  *)
(* special values (NaN, +inf, -inf), round-to-nearest-even and a mantissa  *)
(* of MantBits bits (numpy's float64 has 53; TLC's 32-bit integers do not *)
(* reach that far).  Subnormals and the sign of zero are not modelled.     *)
(***************************************************************************)
EXTENDS Integers, Sequences, FiniteSets, TLC

VARIABLES
    \* F_Delta_14C applied to one array entry
    dpc, c12, c14, delta,
    \* load_Delta_14C_dataset(ds, method): the position in it, its arguments,
    \* the dataset as it was when the call was made, the calls made to the
    \* collaborators (model structure, adapter, solvers, reference table)
    pc, method, ds, ds_call, calls,
    \* the 12C model run with its reconstruction errors, the atmospheric
    \* curve at the run's times[:-1], the values load_dmr_14C / load_smr_14C
    \* compute, the 14C model run
    mr, errs, atm, tr, mr_14C,
    \* the flux series of create_Delta_14C_dataset, the dataset being built,
    \* the log string, the returned dataset, and the exception raised in
    \* the call (of type "none" when there is none)
    fl, ds_Delta_14C, log, ret, exc

deltaVars == <<dpc, c12, c14, delta>>
callVars == <<pc, method, ds, ds_call, calls>>
runVars == <<mr, errs, atm, tr, mr_14C>>
outVars == <<fl, ds_Delta_14C, log, ret, exc>>
vars == <<deltaVars, callVars, runVars, outVars>>

\* mantissa width of the modelled floating-point format
MantBits == 8

\* largest binary exponent of a finite float64 (np.finfo(float).maxexp - 1)
MaxExp == 1023

-----------------------------------------------------------------------------
(* Floating-point values                                                   *)

FNaN    == [k |-> "nan", s |-> 1, m |-> 0, e |-> 0]
FPosInf == [k |-> "inf", s |-> 1, m |-> 0, e |-> 0]
FNegInf == [k |-> "inf", s |-> -1, m |-> 0, e |-> 0]
FZero   == [k |-> "fin", s |-> 1, m |-> 0, e |-> 0]

FInf(s) == IF s = 1 THEN FPosInf ELSE FNegInf

IsNaN(a)    == a.k = "nan"
IsInf(a)    == a.k = "inf"
IsFinite(a) == a.k = "fin"
IsZero(a)   == a.k = "fin" /\ a.m = 0

\* the finite value s * m * 2^e, or the infinity of its sign on overflow
Fin(s, m, e) ==
    IF e + MantBits - 1 > MaxExp THEN FInf(s)
    ELSE [k |-> "fin", s |-> s, m |-> m, e |-> e]

\* the largest finite value (np.finfo(float).max) and its negative
FMax    == [k |-> "fin", s |-> 1, m |-> 2^MantBits - 1, e |-> MaxExp - MantBits + 1]
FNegMax == [k |-> "fin", s |-> -1, m |-> 2^MantBits - 1, e |-> MaxExp - MantBits + 1]

RECURSIVE BitLen(_)
BitLen(n) == IF n = 0 THEN 0 ELSE 1 + BitLen(n \div 2)

\* s * N * 2^e rounded to MantBits bits, ties to even
Normalize(s, N, e) ==
    IF N = 0 THEN FZero
    ELSE LET L == BitLen(N) IN
         IF L <= MantBits
         THEN Fin(s, N * 2^(MantBits - L), e - (MantBits - L))
         ELSE LET sh   == L - MantBits
                  q    == N \div 2^sh
                  r    == N % 2^sh
                  half == 2^(sh - 1)
                  up   == r > half \/ (r = half /\ q % 2 = 1)
                  mm   == IF up THEN q + 1 ELSE q
              IN  IF mm = 2^MantBits
                  THEN Fin(s, 2^(MantBits - 1), e + sh + 1)
                  ELSE Fin(s, mm, e + sh)

FromInt(n) == IF n < 0 THEN Normalize(-1, -n, 0) ELSE Normalize(1, n, 0)

FNeg(a) == IF IsNaN(a) \/ IsZero(a) THEN a ELSE [a EXCEPT !.s = -a.s]

FMul(a, b) ==
    IF IsNaN(a) \/ IsNaN(b) THEN FNaN
    ELSE IF IsInf(a) \/ IsInf(b)
         THEN IF IsZero(a) \/ IsZero(b) THEN FNaN ELSE FInf(a.s * b.s)
    ELSE IF IsZero(a) \/ IsZero(b) THEN FZero
    ELSE Normalize(a.s * b.s, a.m * b.m, a.e + b.e)

\* numpy float division: x/0 is +-inf, 0/0 is nan, no exception
FDiv(a, b) ==
    IF IsNaN(a) \/ IsNaN(b) THEN FNaN
    ELSE IF IsInf(a) THEN (IF IsInf(b) THEN FNaN ELSE FInf(a.s * b.s))
    ELSE IF IsInf(b) THEN FZero
    ELSE IF IsZero(b) THEN (IF IsZero(a) THEN FNaN ELSE FInf(a.s))
    ELSE IF IsZero(a) THEN FZero
    ELSE LET num == a.m * 2^(MantBits + 2)
             q   == num \div b.m
             st  == IF num % b.m = 0 THEN 0 ELSE 1
         IN  Normalize(a.s * b.s, 2 * q + st, a.e - b.e - MantBits - 3)

FAdd(a, b) ==
    IF IsNaN(a) \/ IsNaN(b) THEN FNaN
    ELSE IF IsInf(a) THEN (IF IsInf(b) /\ b.s # a.s THEN FNaN ELSE a)
    ELSE IF IsInf(b) THEN b
    ELSE IF IsZero(a) THEN b
    ELSE IF IsZero(b) THEN a
    ELSE LET hi == IF a.e >= b.e THEN a ELSE b
             lo == IF a.e >= b.e THEN b ELSE a
             d  == hi.e - lo.e
         IN  IF d >= 2 * MantBits + 2 THEN hi
             ELSE LET sum == hi.s * hi.m * 2^d + lo.s * lo.m
                  IN  IF sum < 0 THEN Normalize(-1, -sum, lo.e)
                      ELSE Normalize(1, sum, lo.e)

FSub(a, b) == FAdd(a, FNeg(b))

\* IEEE comparisons: every comparison with NaN is false
FEq(a, b) == ~IsNaN(a) /\ ~IsNaN(b) /\ a = b

\* |a| <= |b| for finite a, b
FAbsLeq(a, b) ==
    \/ IsZero(a)
    \/ ~IsZero(b) /\ (a.e + BitLen(a.m) < b.e + BitLen(b.m)
                       \/ (a.e = b.e /\ a.m <= b.m))

\* Python's None, for a name not bound yet
None == [kind |-> "None"]

\* an entry that has not been computed yet
NoValue == [k |-> "none", s |-> 1, m |-> 0, e |-> 0]

-----------------------------------------------------------------------------
(* The Delta14C diagnostic                                                 *)

\* alpha = 1.18e-12 = 118 / 10^14
alpha == FDiv(FromInt(118), FMul(FromInt(10000000), FromInt(10000000)))

F_Delta_14C_NoOffset(C12, C14) ==
    FMul(FDiv(FDiv(C14, C12), alpha), FromInt(1000))

\* F_Delta_14C = lambda C12, C14: (C14/C12/alpha - 1) * 1000
F_Delta_14C(C12, C14) ==
    FMul(FSub(FDiv(FDiv(C14, C12), alpha), FromInt(1)), FromInt(1000))

-----------------------------------------------------------------------------
(* Model structure (load_model_structure).  Python's 0-based positions are *)
(* 1-based here: position k of a series is Python's k - 1.                 *)

pool_names == <<"Labile", "Leaf", "Root", "Wood", "Litter", "Soil">>

nr_pools == Len(pool_names)

PoolIdx == 1..nr_pools

PoolNr(name) == CHOOSE i \in PoolIdx : pool_names[i] = name

\* pool -> the dataset variable of its external input
external_input_structure ==
    [Labile |-> "NPP_to_Labile", Leaf |-> "NPP_to_Leaf",
     Root |-> "NPP_to_Root", Wood |-> "NPP_to_Wood"]

\* <<from, to>> -> the dataset variable of the internal transfer
horizontal_structure ==
    (<<"Labile", "Leaf">> :> "Labile_to_Leaf") @@
    (<<"Leaf", "Litter">> :> "Leaf_to_Litter") @@
    (<<"Wood", "Soil">> :> "Wood_to_Soil") @@
    (<<"Root", "Litter">> :> "Root_to_Litter") @@
    (<<"Litter", "Soil">> :> "Litter_to_Soil")

\* pool -> the dataset variable of its external output
external_output_structure ==
    [Litter |-> "Litter_to_RH", Soil |-> "Soil_to_RH"]

\* every dataset variable the model structure names
StructureVars ==
    {pool_names[i] : i \in PoolIdx}
        \cup {external_input_structure[q] : q \in DOMAIN external_input_structure}
        \cup {horizontal_structure[q] : q \in DOMAIN horizontal_structure}
        \cup {external_output_structure[q] : q \in DOMAIN external_output_structure}

\* len(mr.times): the number of time points of a model run
NTimes == 3

-----------------------------------------------------------------------------
(* Sums and means                                                          *)

RECURSIVE SumInt(_, _)
SumInt(f, n) == IF n = 0 THEN 0 ELSE SumInt(f, n - 1) + f[n]

RECURSIVE FSum(_, _)
FSum(f, n) == IF n = 0 THEN FZero ELSE FAdd(FSum(f, n - 1), f[n])

\* np.mean(a, axis=0) of a series of pool vectors (nan for an empty series)
MeanAxis0(a) ==
    [p \in PoolIdx |->
        FDiv(FSum([k \in 1..Len(a) |-> a[k][p]], Len(a)), FromInt(Len(a)))]

-----------------------------------------------------------------------------
(* Transfer matrices.  Their rounding is not at issue, so they are exact:  *)
(* an entry <<c, x>> of a matrix with denominator den is                   *)
(* (c + x * E) / den, E = exp(-lamda*365.25/12).  A discrete run's B_k are *)
(* whole multiples of 1/BDen; a continuous run's B(t) are rates in units   *)
(* of lamda/16 per day, in which lamda = 16 and lamda*365.25/12 = 487.     *)

\* denominator of the entries of a discrete run's transfer matrices
BDen == 4

\* lamda = 0.0001209681, in units of lamda/16
LamdaUnits == 16

\* lamda*365.25/12 = lamda * 487/16, in units of lamda/16
LamdaStepUnits == 487

ZeroEntry(a) == a[1] = 0 /\ a[2] = 0

\* np.exp(-lamda*365.25/12) * np.identity(nr_pools)
DecayIdentity ==
    [i \in PoolIdx |-> [j \in PoolIdx |-> IF i = j THEN <<0, 1>> ELSE <<0, 0>>]]

\* np.matmul(B, D) of a whole-number matrix B and a matrix D of entries <<c, x>>
MatMul(B, D) ==
    [i \in PoolIdx |-> [j \in PoolIdx |->
        << SumInt([l \in PoolIdx |-> B[i][l] * D[l][j][1]], nr_pools),
           SumInt([l \in PoolIdx |-> B[i][l] * D[l][j][2]], nr_pools) >>]]

\* np.mean(Ms, axis=0) of a series of matrices of common denominator den
MeanMatrix(Ms, den) ==
    [den |-> den * Len(Ms),
     a   |-> [i \in PoolIdx |-> [j \in PoolIdx |->
                << SumInt([k \in 1..Len(Ms) |-> Ms[k][i][j][1]], Len(Ms)),
                   SumInt([k \in 1..Len(Ms) |-> Ms[k][i][j][2]], Len(Ms)) >>]]]

\* np.eye(nr_pools) - M
EyeMinus(M) ==
    [den |-> M.den,
     a   |-> [i \in PoolIdx |-> [j \in PoolIdx |->
                << (IF i = j THEN M.den ELSE 0) - M.a[i][j][1], -M.a[i][j][2] >>]]]

\* -M
Neg(M) ==
    [den |-> M.den,
     a   |-> [i \in PoolIdx |-> [j \in PoolIdx |->
                << -M.a[i][j][1], -M.a[i][j][2] >>]]]

\* a matrix with a zero row or a zero column is singular
Singular(M) ==
    \/ \E i \in PoolIdx : \A j \in PoolIdx : ZeroEntry(M.a[i][j])
    \/ \E j \in PoolIdx : \A i \in PoolIdx : ZeroEntry(M.a[i][j])

\* np.linalg.solve(A, b): raises LinAlgError for a singular A, else the
\* solution x of A x = b, kept as the system it solves
LinalgSolve(A, b) ==
    [raises |-> IF Singular(A) THEN "LinAlgError" ELSE "none", A |-> A, b |-> b]

-----------------------------------------------------------------------------
(* The 14C companion of a model run                                        *)

\* np.nan_to_num(x, posinf=0): nan -> 0.0, +inf -> 0, and -inf, whose
\* replacement is not given, -> the most negative finite float
NanToNum(x) ==
    IF IsNaN(x) THEN FZero
    ELSE IF x = FPosInf THEN FZero
    ELSE IF x = FNegInf THEN FNegMax
    ELSE x

\* alpha * us_12C * (1 + 1/1000 * F_atm_delta_14C(dmr.times[:-1]).reshape(-1,1))
Us14CRaw(us_12C, F) ==
    [k \in 1..Len(us_12C) |-> [p \in PoolIdx |->
        FMul(FMul(alpha, us_12C[k][p]),
             FAdd(FromInt(1), FMul(FDiv(FromInt(1), FromInt(1000)), F[k])))]]

\* V3: mean of 14C Bs
B0_14C_dmr(Bs) ==
    MeanMatrix([k \in 1..Len(Bs) |-> MatMul(Bs[k], DecayIdentity)], BDen)

\* load_dmr_14C: the values it computes, the exception np.linalg.solve
\* raises ("none" when it returns) and the 14C run it returns (res)
load_dmr_14C(dmr, F) ==
    LET raw    == Us14CRaw(dmr.us, F)
        us_14C == [k \in 1..Len(raw) |-> [p \in PoolIdx |-> NanToNum(raw[k][p])]]
        B0_14C == B0_14C_dmr(dmr.Bs)
        start_values_14C == LinalgSolve(EyeMinus(B0_14C), MeanAxis0(us_14C))
    IN  [raw |-> raw, us_14C |-> us_14C, B0_14C |-> B0_14C,
         A |-> EyeMinus(B0_14C), b |-> MeanAxis0(us_14C),
         raises |-> start_values_14C.raises,
         res |-> [kind |-> "DMR", nt |-> dmr.nt, Bs |-> dmr.Bs,
                  start_values |-> start_values_14C, us |-> us_14C]]

\* Fa_func = lambda t: alpha * (F_atm_delta_14C(t)/1000+1)
Fa_func(F) ==
    [k \in 1..Len(F) |-> FMul(alpha, FAdd(FDiv(F[k], FromInt(1000)), FromInt(1)))]

\* B_func(t) + (-lamda*365.25/12) * np.identity(smr.nr_pools)
RateMinusDecay(B, decay) ==
    [i \in PoolIdx |-> [j \in PoolIdx |->
        << B[i][j] - (IF i = j THEN decay ELSE 0), 0 >>]]

\* V3: mean of 14C Bs over smr.times[:-1]
B0_14C_smr(Bs) ==
    MeanMatrix([k \in 1..Len(Bs) |-> RateMinusDecay(Bs[k], LamdaStepUnits)], 1)

\* load_smr_14C: the values it computes and its outcome
load_smr_14C(smr, F) ==
    LET Fa     == Fa_func(F)
        B0_14C == B0_14C_smr(smr.Bs)
        u_14C  == [k \in 1..Len(smr.us) |->
                      [p \in PoolIdx |-> FMul(smr.us[k][p], Fa[k])]]
        u0_14C == MeanAxis0(u_14C)
        start_values_14C == LinalgSolve(Neg(B0_14C), u0_14C)
    IN  [raw |-> <<>>, us_14C |-> <<>>, B0_14C |-> B0_14C,
         A |-> Neg(B0_14C), b |-> u0_14C,
         raises |-> start_values_14C.raises,
         res |-> [kind |-> "SMR", nt |-> smr.nt, Bs |-> smr.Bs,
                  start_values |-> start_values_14C, us |-> u_14C]]

-----------------------------------------------------------------------------
(* What the model runs expose (CompartmentalSystems, behind the adapter):  *)
(* stand-ins for solve() and the flux accessors, distinct in every time    *)
(* step and pool so that a misplaced index shows.                          *)

Is14C(run) == "start_values" \in DOMAIN run

\* the 12C content of pool p at time point t
Stock12(t, p) == FromInt(8 + 2 * t + p)

\* the 14C content of pool p at time point t
Stock14(t, p) ==
    FMul(FMul(alpha, Stock12(t, p)), FDiv(FromInt(100 + 10 * t + p), FromInt(100)))

\* run.solve(): one pool vector per time point
Solve(run) ==
    [t \in 1..run.nt |-> [p \in PoolIdx |->
        IF Is14C(run) THEN Stock14(t, p) ELSE Stock12(t, p)]]

\* a discrete run has one flux per step, a continuous run one per time point
FluxRows(run) == IF run.kind = "SMR" THEN run.nt ELSE run.nt - 1

StepOf(run, k) == IF k > Len(run.Bs) THEN Len(run.Bs) ELSE k

\* run.external_input_vector
ExternalInputVector(run) ==
    [k \in 1..FluxRows(run) |-> run.us[StepOf(run, k)]]

\* run.internal_flux_matrix: entry [to][from] is the flux from pool `from`
\* into pool `to`
InternalFluxMatrix(run) ==
    [k \in 1..FluxRows(run) |-> [i \in PoolIdx |-> [j \in PoolIdx |->
        IF i = j THEN FZero
        ELSE FMul(FromInt(run.Bs[StepOf(run, k)][i][j]), Solve(run)[k][j])]]]

\* run.external_output_vector
ExternalOutputVector(run) ==
    [k \in 1..FluxRows(run) |-> [p \in PoolIdx |->
        IF pool_names[p] \in DOMAIN external_output_structure
        THEN Solve(run)[k][p] ELSE FZero]]

\* Variable.convert('g/d') of a flux in 'g/(365.25/12 d)'
ConvertToDaily(x) == FDiv(x, FDiv(FromInt(36525), FromInt(1200)))

-----------------------------------------------------------------------------
(* create_Delta_14C_dataset                                                *)

Min(a, b) == IF a <= b THEN a ELSE b

NanVector == [p \in PoolIdx |-> FNaN]

NanMatrix == [i \in PoolIdx |-> [j \in PoolIdx |-> FNaN]]

InsertNanAtT0_NoShift(nanrow, x, nt) == x

\* np.concatenate([nanrow, x[:(len(mr.times)-1)]], axis=0)
InsertNanAtT0(nanrow, x, nt) == <<nanrow>> \o SubSeq(x, 1, Min(Len(x), nt - 1))

ConvertVectors(x) ==
    [k \in 1..Len(x) |-> [p \in PoolIdx |-> ConvertToDaily(x[k][p])]]

ConvertMatrices(x) ==
    [k \in 1..Len(x) |-> [i \in PoolIdx |-> [j \in PoolIdx |->
        ConvertToDaily(x[k][i][j])]]]

\* us, us_14C, Fs, Fs_14C, rs, rs_14C: the daily flux series of both runs
FluxSeries(run, run_14C) ==
    [us     |-> ConvertVectors(
                  InsertNanAtT0(NanVector, ExternalInputVector(run), run.nt)),
     us_14C |-> ConvertVectors(
                  InsertNanAtT0(NanVector, ExternalInputVector(run_14C), run.nt)),
     Fs     |-> ConvertMatrices(
                  InsertNanAtT0(NanMatrix, InternalFluxMatrix(run), run.nt)),
     Fs_14C |-> ConvertMatrices(
                  InsertNanAtT0(NanMatrix, InternalFluxMatrix(run_14C), run.nt)),
     rs     |-> ConvertVectors(
                  InsertNanAtT0(NanVector, ExternalOutputVector(run), run.nt)),
     rs_14C |-> ConvertVectors(
                  InsertNanAtT0(NanVector, ExternalOutputVector(run_14C), run.nt))]

add_variable_Always(dset, data_vars, var_name_ds, new_var) ==
    (var_name_ds :> [data |-> new_var.data, units |-> new_var.unit]) @@ data_vars

\* data_vars[var_name_ds] = a new array, if the dataset has that variable
add_variable(dset, data_vars, var_name_ds, new_var) ==
    IF var_name_ds \in DOMAIN dset.vars
    THEN (var_name_ds :> [data |-> new_var.data, units |-> new_var.unit])
             @@ data_vars
    ELSE data_vars

\* add_variable for every entry of new_vars (their names are distinct, so
\* the order of the calls does not matter)
AddVariables(dset, data_vars, new_vars) ==
    LET added(i) == add_variable(dset, <<>>, new_vars[i].name, new_vars[i])
        names    == UNION {DOMAIN added(i) : i \in DOMAIN new_vars}
    IN  [nm \in names \cup DOMAIN data_vars |->
            IF nm \in names
            THEN added(CHOOSE i \in DOMAIN new_vars : nm \in DOMAIN added(i))[nm]
            ELSE data_vars[nm]]

\* save stocks
StockVariables(soln, soln_14C) ==
    [n \in PoolIdx |->
        [name |-> pool_names[n],
         data |-> [t \in 1..Len(soln) |-> F_Delta_14C(soln[t][n], soln_14C[t][n])],
         unit |-> "gC/m2"]]

\* save external input fluxes
InputFluxVariables(us, us_14C) ==
    [n \in PoolIdx |->
        [name |-> "NPP_to_" \o pool_names[n],
         data |-> [t \in 1..Len(us) |-> F_Delta_14C(us[t][n], us_14C[t][n])],
         unit |-> "g/d"]]

\* save internal fluxes: for pn_from in pool_names: for pn_to in pool_names
InternalFluxVariables(Fs, Fs_14C) ==
    [q \in 1..(nr_pools * nr_pools) |->
        LET pnr_from == ((q - 1) \div nr_pools) + 1
            pnr_to   == ((q - 1) % nr_pools) + 1
        IN  [name |-> pool_names[pnr_from] \o "_to_" \o pool_names[pnr_to],
             data |-> [t \in 1..Len(Fs) |->
                         F_Delta_14C(Fs[t][pnr_to][pnr_from],
                                     Fs_14C[t][pnr_to][pnr_from])],
             unit |-> "g/d"]]

\* save external output fluxes
OutputFluxVariables(rs, rs_14C) ==
    [n \in PoolIdx |->
        [name |-> pool_names[n] \o "_to_RH",
         data |-> [t \in 1..Len(rs) |-> F_Delta_14C(rs[t][n], rs_14C[t][n])],
         unit |-> "g/d"]]

\* a new dataset of data_vars with the coordinates and attributes of dset
NewDataset(dset, data_vars) ==
    [id |-> "ds_Delta_14C", ens |-> dset.ens, attrs |-> dset.attrs,
     vars |-> data_vars]

create_Delta_14C_dataset(dset, run, run_14C) ==
    LET f   == FluxSeries(run, run_14C)
        dv1 == AddVariables(dset, <<>>,
                   StockVariables(Solve(run), Solve(run_14C)))
        dv2 == AddVariables(dset, dv1,
                   InputFluxVariables(f.us, f.us_14C))
        dv3 == AddVariables(dset, dv2,
                   InternalFluxVariables(f.Fs, f.Fs_14C))
        dv4 == AddVariables(dset, dv3,
                   OutputFluxVariables(f.rs, f.rs_14C))
    IN  NewDataset(dset, dv4)

-----------------------------------------------------------------------------
(* load_Delta_14C_dataset                                                  *)

ValidMethod_Any(mth) == TRUE

\* method in ['discrete', 'continuous']
ValidMethod(mth) == mth \in {"discrete", "continuous"}

EmptyInput_Never(dset) == FALSE

\* ds.ens.values.shape == (0,)
EmptyInput(dset) == dset.ens = 0

\* an array of shape (0,0,0): no entries
EmptyVar == [data |-> <<>>, units |-> ""]

\* a 0-dimensional array
ScalarVar(x, units) == [data |-> <<x>>, units |-> units]

\* dset with dset[name] = var assigned
SetVar(dset, name, var) == [dset EXCEPT !.vars = (name :> var) @@ @]

\* the fake return structure of the first call: the three variables are
\* assigned to ds itself, and ds is what is returned
EmptyResult(dset) ==
    SetVar(SetVar(SetVar(dset, "max_abs_err", EmptyVar),
                  "max_rel_err", EmptyVar), "log", EmptyVar)

\* add reconstruction error
WithErrors(dset, e) ==
    SetVar(SetVar(dset, "max_abs_err", ScalarVar(e.max_abs, e.abs_unit)),
           "max_rel_err", ScalarVar(e.max_rel, e.rel_unit))

FailureResult_KeepData(dset) ==
    SetVar(SetVar(NewDataset(dset, dset.vars),
                  "max_abs_err", ScalarVar(FNaN, "")),
           "max_rel_err", ScalarVar(FNaN, ""))

\* except DMRError: every data variable but 'time' times nan, in a copy of ds
FailureResult(dset) ==
    SetVar(SetVar(NewDataset(dset,
                      [key \in DOMAIN dset.vars \ {"time"} |->
                          [dset.vars[key] EXCEPT !.data =
                              [t \in 1..Len(@) |-> FMul(FNaN, @[t])]]]),
                  "max_abs_err", ScalarVar(FNaN, "")),
           "max_rel_err", ScalarVar(FNaN, ""))

NoExc == [type |-> "none", msg |-> ""]

\* the except clause of the try block
Caught(e) == e.type = "DMRError"

-----------------------------------------------------------------------------
(* Inputs                                                                  *)

\* largest stock used as an input of the diagnostic
MaxStock == 40

C12Values == {FromInt(n) : n \in 1..MaxStock} \cup {FZero, FNaN}

C14Values(C12) ==
    {FMul(alpha, C12), FMul(alpha, FromInt(3)), FZero, FNaN}

\* a discrete run's B_k: the pools keep kept/BDen of their content and pass
\* 1/BDen along each transfer of the model structure
TransferMatrix(kept) ==
    [i \in PoolIdx |-> [j \in PoolIdx |->
        IF i = j THEN kept
        ELSE IF <<pool_names[j], pool_names[i]>> \in DOMAIN horizontal_structure
             THEN 1
        ELSE 0]]

\* a continuous run's B(t): the net rate of every pool on the diagonal and
\* a rate of LamdaUnits along each transfer of the model structure
RateMatrix(rate) ==
    [i \in PoolIdx |-> [j \in PoolIdx |->
        IF i = j THEN rate
        ELSE IF <<pool_names[j], pool_names[i]>> \in DOMAIN horizontal_structure
             THEN LamdaUnits
        ELSE 0]]

\* the external inputs of one step: u into every pool of the input structure
InputVector(u) ==
    [p \in PoolIdx |->
        IF pool_names[p] \in DOMAIN external_input_structure THEN u ELSE FZero]

Retentions == {BDen - 2, BDen - 1}

Rates == {-2 * LamdaUnits, LamdaStepUnits}

InputValues == {FZero, FromInt(2)}

\* values of the interpolated atmospheric curve: interp1d divides by the
\* distance of neighbouring calibration years, so a repeated year makes the
\* curve +-inf or nan there (np.errstate(divide='ignore'))
AtmValues == {FromInt(100), FPosInf, FNegInf, FNaN}

\* the runs of one kind with nt time points
ModelRuns(kind, nt) ==
    { [kind |-> kind, nt |-> nt,
       Bs |-> [k \in 1..(nt - 1) |->
                 IF kind = "DMR" THEN TransferMatrix(d[k]) ELSE RateMatrix(d[k])],
       us |-> [k \in 1..(nt - 1) |-> InputVector(u[k])]] :
      d \in [1..(nt - 1) -> (IF kind = "DMR" THEN Retentions ELSE Rates)],
      u \in [1..(nt - 1) -> InputValues] }

\* the runs whose matrices and inputs are the same in every step
SteadyRuns(kind, nt) ==
    { r \in ModelRuns(kind, nt) :
        \A k \in 1..(nt - 1) : r.Bs[k] = r.Bs[1] /\ r.us[k] = r.us[1] }

SteadyCurves(nt) ==
    { F \in [1..(nt - 1) -> AtmValues] : \A k \in 1..(nt - 1) : F[k] = F[1] }

\* max. abs. / max. rel. error on reconstructed stock sizes
ReconstructionErrors ==
    [max_abs |-> FDiv(FromInt(1), FromInt(8)), abs_unit |-> "gC/m2",
     max_rel |-> FDiv(FromInt(1), FromInt(64)), rel_unit |-> "%"]

\* messages of the DMRError a reconstruction raises
DMRMessages == {"Diag. val < 0", "Negative flux"}

Methods == {"discrete", "continuous", "pwc"}

\* variables a dataset may carry beside those of the model structure
ExtraVars == {"Soil_to_Leaf", "NPP_to_Soil", "Leaf_to_RH", "GPP"}

InputDataset(ens, extra) ==
    [id |-> "ds", ens |-> ens, attrs |-> [title |-> "CARDAMOM"],
     vars |-> [n \in StructureVars \cup extra |->
                 [data  |-> IF ens = 0 THEN <<>>
                            ELSE [t \in 1..NTimes |-> FromInt(2)],
                  units |-> IF \E i \in PoolIdx : pool_names[i] = n
                            THEN "gC/m2" ELSE "gC/m2/d"]]]

-----------------------------------------------------------------------------
(* Specifications                                                          *)

DeltaIdle == dpc = "off" /\ c12 = NoValue /\ c14 = NoValue /\ delta = NoValue

CallIdle ==
    /\ method = "none" /\ ds = None /\ ds_call = None
    /\ errs = None /\ fl = None /\ ds_Delta_14C = None /\ log = "" /\ ret = None

InitDelta ==
    /\ dpc = "input"
    /\ c12 \in C12Values
    /\ c14 \in C14Values(c12)
    /\ delta = NoValue
    /\ pc = "off" /\ calls = {} /\ CallIdle
    /\ mr = None /\ atm = <<>> /\ tr = None /\ mr_14C = None /\ exc = NoExc

\* F_Delta_14C(C12, C14) of one entry
ApplyDelta ==
    /\ dpc = "input"
    /\ delta' = F_Delta_14C(c12, c14)
    /\ dpc' = "done"
    /\ UNCHANGED <<c12, c14, callVars, runVars, outVars>>

NextDelta == ApplyDelta

SpecDelta == InitDelta /\ [][NextDelta]_vars

\* load_dmr_14C / load_smr_14C on their own
InitTracer ==
    /\ pc = "load_14C"
    /\ \E kind \in {"DMR", "SMR"} : mr \in ModelRuns(kind, NTimes)
    /\ atm \in [1..(NTimes - 1) -> AtmValues]
    /\ tr = None /\ mr_14C = None /\ exc = NoExc /\ calls = {}
    /\ CallIdle /\ DeltaIdle

\* an exception raised inside the try block: the handler's, or the caller's
RaiseInTry(e) ==
    /\ exc' = e
    /\ pc' = IF Caught(e) THEN "except" ELSE "raised"

\* mr_14C = load_dmr_14C(mr)
LoadDmr14C ==
    /\ pc = "load_14C" /\ mr.kind = "DMR"
    /\ tr' = load_dmr_14C(mr, atm)
    /\ IF tr'.raises # "none"
       THEN /\ RaiseInTry([type |-> tr'.raises, msg |-> "Singular matrix"])
            /\ calls' = calls \cup {"np.loadtxt", "np.linalg.solve"}
            /\ UNCHANGED mr_14C
       ELSE /\ pc' = "solve" /\ mr_14C' = tr'.res
            /\ calls' = calls \cup {"np.loadtxt", "np.linalg.solve", "to_14C_only"}
            /\ UNCHANGED exc
    /\ UNCHANGED <<mr, errs, atm, method, ds, ds_call, fl, ds_Delta_14C, log, ret>>
    /\ UNCHANGED deltaVars

\* mr_14C = load_smr_14C(mr)
LoadSmr14C ==
    /\ pc = "load_14C" /\ mr.kind = "SMR"
    /\ tr' = load_smr_14C(mr, atm)
    /\ IF tr'.raises # "none"
       THEN /\ RaiseInTry([type |-> tr'.raises, msg |-> "Singular matrix"])
            /\ calls' = calls \cup {"np.loadtxt", "np.linalg.solve"}
            /\ UNCHANGED mr_14C
       ELSE /\ pc' = "solve" /\ mr_14C' = tr'.res
            /\ calls' = calls \cup {"np.loadtxt", "np.linalg.solve", "to_14C_only"}
            /\ UNCHANGED exc
    /\ UNCHANGED <<mr, errs, atm, method, ds, ds_call, fl, ds_Delta_14C, log, ret>>
    /\ UNCHANGED deltaVars

NextTracer == LoadDmr14C \/ LoadSmr14C

SpecTracer == InitTracer /\ [][NextTracer]_vars

\* a call load_Delta_14C_dataset(ds, method)
Init ==
    /\ pc = "call"
    /\ method \in Methods
    /\ \E ens \in {0, 1} : \E extra \in SUBSET ExtraVars :
          ds = InputDataset(ens, extra)
    /\ ds_call = ds
    /\ calls = {}
    /\ atm \in SteadyCurves(NTimes)
    /\ mr = None /\ errs = None /\ tr = None /\ mr_14C = None
    /\ fl = None /\ ds_Delta_14C = None /\ log = "" /\ ret = None /\ exc = NoExc
    /\ DeltaIdle

\* if method not in ['discrete', 'continuous']: raise ValueError
RaiseInvalidMethod ==
    /\ pc = "call"
    /\ ~ValidMethod(method)
    /\ pc' = "raised"
    /\ exc' = [type |-> "ValueError",
               msg  |-> "method must be either 'discrete' or 'continuous'"]
    /\ UNCHANGED <<method, ds, ds_call, calls, runVars, fl, ds_Delta_14C, log, ret>>
    /\ UNCHANGED deltaVars

\* if ds.ens.values.shape == (0,): ... return ds
ReturnEmpty ==
    /\ pc = "call"
    /\ ValidMethod(method)
    /\ EmptyInput(ds)
    /\ ds' = EmptyResult(ds)
    /\ ret' = ds'
    /\ pc' = "done"
    /\ UNCHANGED <<method, ds_call, calls, runVars, fl, ds_Delta_14C, log, exc>>
    /\ UNCHANGED deltaVars

\* log = ''; try: mdo = load_mdo(ds)
LoadMdo ==
    /\ pc = "call"
    /\ ValidMethod(method)
    /\ ~EmptyInput(ds)
    /\ log' = ""
    /\ calls' = calls \cup {"load_model_structure", "ModelDataObject"}
    /\ pc' = "create_mr"
    /\ UNCHANGED <<method, ds, ds_call, runVars, fl, ds_Delta_14C, ret, exc>>
    /\ UNCHANGED deltaVars

\* mr, abs_err, rel_err = mdo.create_discrete_model_run(errors=True)
CreateDiscreteModelRun ==
    /\ pc = "create_mr"
    /\ method = "discrete"
    /\ calls' = calls \cup {"create_discrete_model_run"}
    /\ \/ /\ \E msg \in DMRMessages : RaiseInTry([type |-> "DMRError", msg |-> msg])
          /\ UNCHANGED <<mr, errs>>
       \/ /\ mr' \in SteadyRuns("DMR", NTimes)
          /\ errs' = ReconstructionErrors
          /\ pc' = "load_14C"
          /\ UNCHANGED exc
    /\ UNCHANGED <<method, ds, ds_call, atm, tr, mr_14C, fl, ds_Delta_14C, log, ret>>
    /\ UNCHANGED deltaVars

\* mr, abs_err, rel_err = mdo.create_model_run(errors=True)
CreateModelRun ==
    /\ pc = "create_mr"
    /\ method = "continuous"
    /\ calls' = calls \cup {"create_model_run"}
    /\ \/ /\ \E msg \in DMRMessages : RaiseInTry([type |-> "DMRError", msg |-> msg])
          /\ UNCHANGED <<mr, errs>>
       \/ /\ mr' \in SteadyRuns("SMR", NTimes)
          /\ errs' = ReconstructionErrors
          /\ pc' = "load_14C"
          /\ UNCHANGED exc
    /\ UNCHANGED <<method, ds, ds_call, atm, tr, mr_14C, fl, ds_Delta_14C, log, ret>>
    /\ UNCHANGED deltaVars

\* soln = mr.solve(); soln_14C = mr_14C.solve()
SolveRuns ==
    /\ pc = "solve"
    /\ ds # None
    /\ calls' = calls \cup {"solve"}
    /\ pc' = "create_dataset"
    /\ UNCHANGED <<method, ds, ds_call, runVars, outVars>>
    /\ UNCHANGED deltaVars

\* ds_Delta_14C = create_Delta_14C_dataset(mdo, ds, mr, mr_14C), then
\* max_abs_err and max_rel_err are added
CreateDelta14CDataset ==
    /\ pc = "create_dataset"
    /\ fl' = FluxSeries(mr, mr_14C)
    /\ ds_Delta_14C' = WithErrors(create_Delta_14C_dataset(ds, mr, mr_14C), errs)
    /\ pc' = "set_log"
    /\ UNCHANGED <<method, ds, ds_call, calls, runVars, log, ret, exc>>
    /\ UNCHANGED deltaVars

\* except DMRError as e: log = str(e), and the all-nan dataset
HandleDMRError ==
    /\ pc = "except"
    /\ log' = exc.msg
    /\ ds_Delta_14C' = FailureResult(ds)
    /\ pc' = "set_log"
    /\ UNCHANGED <<method, ds, ds_call, calls, runVars, fl, ret, exc>>
    /\ UNCHANGED deltaVars

\* ds_Delta_14C['log'] = log; return ds_Delta_14C
ReturnResult ==
    /\ pc = "set_log"
    /\ ds_Delta_14C' = SetVar(ds_Delta_14C, "log", ScalarVar(log, ""))
    /\ ret' = ds_Delta_14C'
    /\ pc' = "done"
    /\ UNCHANGED <<method, ds, ds_call, calls, runVars, fl, log, exc>>
    /\ UNCHANGED deltaVars

Next ==
    \/ RaiseInvalidMethod
    \/ ReturnEmpty
    \/ LoadMdo
    \/ CreateDiscreteModelRun
    \/ CreateModelRun
    \/ LoadDmr14C
    \/ LoadSmr14C
    \/ SolveRuns
    \/ CreateDelta14CDataset
    \/ HandleDMRError
    \/ ReturnResult

Spec == Init /\ [][Next]_vars

-----------------------------------------------------------------------------
(* Properties of F_Delta_14C (SpecDelta)                                   *)

-----------------------------------------------------------------------------
(* Properties of load_dmr_14C and load_smr_14C (SpecTracer)                *)

\* C8 (as stated): in load_dmr_14C every entry of alpha*u12*(1+F/1000) that
\* is +inf or -inf is zero in the series the initial-condition solve and the
\* 14C-only system get, and every finite entry is unchanged.
C8_AsStated ==
    (pc # "load_14C" /\ mr.kind = "DMR") =>
        /\ \A k \in 1..Len(tr.raw) : \A p \in PoolIdx :
              /\ (IsInf(tr.raw[k][p]) => tr.us_14C[k][p] = FZero)
              /\ (IsFinite(tr.raw[k][p]) => tr.us_14C[k][p] = tr.raw[k][p])
        /\ tr.b = MeanAxis0(tr.us_14C)
        /\ (pc = "solve" => mr_14C.us = tr.us_14C)

\* the system the claim names for a discrete run:
\* (I - mean_k(B_k * exp(-lamda*step_days) * I)) x0 = mean(u14)
ClaimedA_dmr(Bs) ==
    [den |-> BDen * Len(Bs),
     a   |-> [i \in PoolIdx |-> [j \in PoolIdx |->
                << IF i = j THEN BDen * Len(Bs) ELSE 0,
                   -SumInt([k \in 1..Len(Bs) |-> Bs[k][i][j]], Len(Bs)) >>]]]

\* the system the claim names for a continuous run:
\* -mean_t(B(t) - lamda * I) x0 = mean(u14), lamda per day
ClaimedA_smr(Bs) ==
    [den |-> Len(Bs),
     a   |-> [i \in PoolIdx |-> [j \in PoolIdx |->
                << (IF i = j THEN Len(Bs) * LamdaUnits ELSE 0)
                     - SumInt([k \in 1..Len(Bs) |-> Bs[k][i][j]], Len(Bs)),
                   0 >>]]]

\* C10 (as stated): x0 solves (I - B0_14) x0 = mean(u14) with B0_14 the mean
\* of B_k * exp(-lamda*step_days) * I in discrete mode, and
\* -B0_14 x0 = mean(u14) with B0_14 the mean of B(t) - lamda*I, lamda the
\* per-day decay constant, in continuous mode.
C10_AsStated ==
    pc # "load_14C" =>
        /\ (mr.kind = "DMR" =>
              /\ tr.A = ClaimedA_dmr(mr.Bs)
              /\ tr.b = MeanAxis0(tr.us_14C))
        /\ (mr.kind = "SMR" =>
              /\ tr.A = ClaimedA_smr(mr.Bs)
              /\ tr.b = MeanAxis0([k \in 1..Len(mr.us) |->
                           [p \in PoolIdx |-> FMul(mr.us[k][p], Fa_func(atm)[k])]]))

-----------------------------------------------------------------------------
(* Properties of load_Delta_14C_dataset (Spec)                             *)

\* the variables load_Delta_14C_dataset adds to its result
ResultVars == {"max_abs_err", "max_rel_err", "log"}

\* the call has returned from a try block that ran to its end
Succeeded == pc = "done" /\ ds_call.ens > 0 /\ exc = NoExc

\* the call has returned through the except clause
Recovered == pc = "done" /\ ds_call.ens > 0 /\ exc.type = "DMRError"

\* C1 (as stated): with a legal mode and a non-empty input, no failure of
\* the reconstruction or of the singular solve for the tracer initial
\* condition reaches the caller as an exception.
C1_AsStated ==
    (method \in {"discrete", "continuous"} /\ ds_call.ens > 0) => pc # "raised"

\* C2: for a mode other than 'discrete' and 'continuous' the call raises
\* ValueError before anything is computed: no call is made, no run or
\* tracer system is built, the dataset is unchanged, nothing is returned and
\* the except clause is never entered, also for an empty ens dimension.
C2_InvalidMethodRaisesFirst ==
    method \notin {"discrete", "continuous"} =>
        /\ pc \in {"call", "raised"}
        /\ calls = {}
        /\ ds = ds_call
        /\ mr = None /\ tr = None /\ mr_14C = None /\ errs = None
        /\ fl = None /\ ds_Delta_14C = None /\ ret = None /\ log = ""
        /\ (pc = "raised" => exc.type = "ValueError")
        /\ (pc = "call" => exc = NoExc)

\* an illegal mode has been rejected for a dataset with an empty ens
C2_Witness ==
    /\ pc = "raised"
    /\ method = "pwc"
    /\ ds_call.ens = 0
    /\ exc.type = "ValueError"

\* C3 (as stated): on every path the caller's dataset is what it was before
\* the call, and what is returned is a separate structure.
C3_AsStated ==
    pc \in {"done", "raised"} =>
        /\ ds = ds_call
        /\ (pc = "done" => ret.id # ds_call.id)

\* C4: for an empty ens dimension and a legal mode the call returns without
\* any call into the model code (no structure, run, tracer system or
\* solve); the result has the variables of the input and max_abs_err,
\* max_rel_err and log, none of them with an entry, in both modes alike.
C4_EmptyShortCircuit ==
    (pc = "done" /\ ds_call.ens = 0) =>
        /\ method \in {"discrete", "continuous"}
        /\ calls = {}
        /\ mr = None /\ tr = None /\ mr_14C = None /\ errs = None
        /\ fl = None /\ ds_Delta_14C = None /\ exc = NoExc
        /\ ret.ens = 0
        /\ DOMAIN ret.vars = DOMAIN ds_call.vars \cup ResultVars
        /\ \A n \in DOMAIN ret.vars : ret.vars[n].data = <<>>

\* the short-circuit has been taken in continuous mode
C4_Witness ==
    /\ pc = "done"
    /\ ds_call.ens = 0
    /\ method = "continuous"
    /\ ResultVars \subseteq DOMAIN ret.vars

\* C5: a result for a non-empty input has an empty log exactly when the try
\* block ran to its end; after a DMRError the log is the error's message,
\* the result has the variables of the input, every entry of them NaN,
\* max_abs_err and max_rel_err are NaN, and nothing else is in the result.
C5_LogAndFailureResult ==
    (pc = "done" /\ ds_call.ens > 0) =>
        /\ (ret.vars["log"].data = <<"">>) <=> Succeeded
        /\ Succeeded \/ Recovered
        /\ Recovered =>
              /\ ret.vars["log"].data = <<exc.msg>>
              /\ exc.msg \in DMRMessages
              /\ DOMAIN ret.vars = DOMAIN ds_call.vars \cup ResultVars
              /\ \A n \in DOMAIN ds_call.vars :
                    /\ Len(ret.vars[n].data) = Len(ds_call.vars[n].data)
                    /\ \A t \in 1..Len(ret.vars[n].data) :
                          IsNaN(ret.vars[n].data[t])
              /\ ret.vars["max_abs_err"].data = <<FNaN>>
              /\ ret.vars["max_rel_err"].data = <<FNaN>>

\* a reconstruction has failed in discrete mode and the call has returned
C5_Witness ==
    /\ Recovered
    /\ method = "discrete"
    /\ ret.vars["log"].data = <<"Negative flux">>
    /\ "create_discrete_model_run" \in calls

\* the names create_Delta_14C_dataset offers to add_variable
CandidateNames ==
    {pool_names[p] : p \in PoolIdx}
      \cup {"NPP_to_" \o pool_names[p] : p \in PoolIdx}
      \cup {pool_names[p] \o "_to_" \o pool_names[q] : p \in PoolIdx, q \in PoolIdx}
      \cup {pool_names[p] \o "_to_RH" : p \in PoolIdx}

\* C6 (as stated): on success the result has a Delta14C series for the
\* stocks and for the inputs, outputs and pool pairs of the model structure,
\* and for nothing else, whatever variables the input dataset carries.
C6_AsStated ==
    Succeeded => DOMAIN ret.vars \ ResultVars = StructureVars

\* C6 (amended): on success the result has a Delta14C series for a stock, an
\* input NPP_to_<pool>, a pair <from>_to_<to> or an output <pool>_to_RH of
\* any pools exactly when the input dataset carries a variable of that name;
\* the variables of the model structure are among them.
C6_SeriesFollowDataset ==
    Succeeded =>
        /\ DOMAIN ret.vars \ ResultVars = CandidateNames \cap DOMAIN ds_call.vars
        /\ StructureVars \subseteq DOMAIN ret.vars

\* a dataset with a pair, an input and an output that the model structure
\* lacks, and a variable that is no candidate, has been processed
C6_Witness ==
    /\ Succeeded
    /\ {"Soil_to_Leaf", "NPP_to_Soil", "Leaf_to_RH"} \subseteq DOMAIN ret.vars
    /\ "GPP" \in DOMAIN ds_call.vars \ DOMAIN ret.vars

\* C9: each of us, us_14C, Fs, Fs_14C, rs, rs_14C has one entry per time
\* point, NaN first and then the accessor's rows 0, 1, ... converted to
\* daily rates; so every flux series of the result starts with NaN, and the
\* series <from>_to_<to> is the diagnostic of the entries [to][from].
C9_FluxesShiftedByOne ==
    Succeeded =>
        /\ \A f \in {"us", "us_14C", "Fs", "Fs_14C", "rs", "rs_14C"} :
              Len(fl[f]) = NTimes
        /\ fl.us[1] = NanVector /\ fl.us_14C[1] = NanVector
        /\ fl.rs[1] = NanVector /\ fl.rs_14C[1] = NanVector
        /\ fl.Fs[1] = NanMatrix /\ fl.Fs_14C[1] = NanMatrix
        /\ \A k \in 2..NTimes : \A p \in PoolIdx :
              /\ fl.us[k][p] = ConvertToDaily(ExternalInputVector(mr)[k - 1][p])
              /\ fl.us_14C[k][p] =
                     ConvertToDaily(ExternalInputVector(mr_14C)[k - 1][p])
              /\ fl.rs[k][p] = ConvertToDaily(ExternalOutputVector(mr)[k - 1][p])
              /\ fl.rs_14C[k][p] =
                     ConvertToDaily(ExternalOutputVector(mr_14C)[k - 1][p])
              /\ \A q \in PoolIdx :
                    /\ fl.Fs[k][p][q] =
                           ConvertToDaily(InternalFluxMatrix(mr)[k - 1][p][q])
                    /\ fl.Fs_14C[k][p][q] =
                           ConvertToDaily(InternalFluxMatrix(mr_14C)[k - 1][p][q])
        /\ \A n \in (DOMAIN ret.vars \ ResultVars) \ {pool_names[p] : p \in PoolIdx} :
              /\ Len(ret.vars[n].data) = NTimes
              /\ IsNaN(ret.vars[n].data[1])
        /\ \A from \in PoolIdx : \A to \in PoolIdx :
              LET n == pool_names[from] \o "_to_" \o pool_names[to]
              IN  n \in DOMAIN ret.vars =>
                      \A k \in 1..NTimes :
                          ret.vars[n].data[k] =
                              F_Delta_14C(fl.Fs[k][to][from], fl.Fs_14C[k][to][from])

\* a discrete run's fluxes have been diagnosed: the flux from Leaf to Litter
\* has a value after the first time point, and so has the input of Leaf
C9_Witness ==
    /\ Succeeded
    /\ method = "discrete"
    /\ IsFinite(ret.vars["Leaf_to_Litter"].data[2])
    /\ IsFinite(ret.vars["Leaf_to_Litter"].data[NTimes])
    /\ ~IsNaN(fl.us[2][PoolNr("Leaf")])

=============================================================================
